---- MODULE Spec2Model ----
(***************************************************************************)
(* Model of the Counter component of src/counter.jsx: a React function     *)
(* component holding two pieces of state (count, isVisible), one ref       *)
(* (containerRef) and three effects (observer, timer, restart).            *)
(*                                                                         *)
(* Numbers.  count is produced by parseFloat((prev + inc).toFixed(2)), so  *)
(* every value it takes after mount is a multiple of 1/100.  The model     *)
(* keeps count in hundredths (count = 250 is the JavaScript number 2.5);   *)
(* start and end are whole numbers, as the steppers of the property panel  *)
(* give them.  prev + inc is evaluated exactly as a rational; where the    *)
(* exact sum lies half way between two hundredths, the double the engine   *)
(* computes may fall on either side, and both roundings are allowed.       *)
(*                                                                         *)
(* Strings.  The rendered number is a sequence of one-character strings.  *)
(*                                                                         *)
(* Scheduling.  Each action is one callback of the event loop (an interval *)
(* tick, an IntersectionObserver notification, a prop change, the unmount) *)
(* together with the re-render it causes and the effects of that render,   *)
(* run until no further state update is pending.                           *)
(***************************************************************************)
EXTENDS Integers, FiniteSets, Sequences

VARIABLES
    start,              \* props.start
    end,                \* props.end
    duration,           \* props.duration (ms)
    startOnViewport,    \* props.startOnViewport
    restartOnViewport,  \* props.restartOnViewport
    loop,               \* props.loop
    decimalSeparatorType, \* props.decimalSeparatorType
    incrementType,      \* props.incrementType
    count,              \* useState(start), in hundredths
    rendered,           \* text of the number span, <<>> when unmounted
    isVisible,          \* useState(false)
    containerRef,       \* containerRef.current: "div" or "null"
    observing,          \* the IntersectionObserver observes the root element
    activeIntervals,    \* number of intervals registered with setInterval
    mounted,            \* the component is mounted
    lastEvent,          \* history: the callback that ran last
    countBefore,        \* history: count before that callback
    ticks               \* history: interval callbacks run since mount

vars == <<start, end, duration, startOnViewport, restartOnViewport, loop,
          decimalSeparatorType, incrementType, rendered, count, isVisible, containerRef, observing, activeIntervals, mounted,
          lastEvent, countBefore, ticks>>

props == <<start, end, duration, startOnViewport, restartOnViewport,
           decimalSeparatorType, incrementType>>

----------------------------------------------------------------------------
(* Bounds of the model *)

\* start and end range over 0..MaxNumber
MaxNumber == 2

\* ticks are followed until count is this many units outside [start, end]
MaxOvershoot == 2

\* interval callbacks are counted up to MaxTicks; ticks = MaxTicks stands
\* for "MaxTicks or more"
MaxTicks == 10

\* the values of props.duration explored (the control allows 100..60000)
Durations == {100, 300, 800, 30000}

\* the values of start rendered with grouping, and the durations used there
FormatNumbers == {0, 2, 999, 1000, 1234, 99999, 999999, 1234567}

FormatDurations == {100, 200, 300}

----------------------------------------------------------------------------
(* Program constants *)

\* toFixed(2): count has two decimals, so one unit is 100 hundredths
Scale == 100

\* Math.ceil(duration / 100): one step per 100 ms
StepMs == 100

----------------------------------------------------------------------------
(* Arithmetic helpers *)

Max(a, b) == IF a >= b THEN a ELSE b

Min(a, b) == IF a <= b THEN a ELSE b

\* Math.ceil(a / b) for a >= 0, b > 0
Ceil(a, b) == (a + b - 1) \div b

\* The hundredths that (num / den).toFixed(2) can produce, for num/den a
\* value in hundredths, den > 0: the nearest integer, and either neighbour
\* when num/den is exactly half way between two.
ToFixed2(num, den) ==
    LET q == num \div den
        r == num % den
    IN  IF 2 * r < den THEN {q}
        ELSE IF 2 * r > den THEN {q + 1}
        ELSE {q, q + 1}

----------------------------------------------------------------------------
(* The formatter *)

\* the character of a decimal digit d in 0..9
Digit(d) == <<"0", "1", "2", "3", "4", "5", "6", "7", "8", "9">>[d + 1]

\* the decimal digits of a natural number n, most significant first
RECURSIVE Digits(_)
Digits(n) ==
    IF n < 10 THEN <<Digit(n)>>
    ELSE Append(Digits(n \div 10), Digit(n % 10))

\* a group of three digits, zero-padded (n in 0..999)
Pad3(n) == <<Digit(n \div 100), Digit((n \div 10) % 10), Digit(n % 10)>>

\* en-US grouping of a natural number: groups of three digits, joined by ","
RECURSIVE GroupThousands(_)
GroupThousands(n) ==
    IF n < 1000 THEN Digits(n)
    ELSE GroupThousands(n \div 1000) \o <<",">> \o Pad3(n % 1000)

\* Math.round of a count in hundredths: floor(x + 0.5), as a whole number
\* with its sign (a negative count above -0.5 rounds to -0).
MathRound(c) ==
    LET r == (c + 50) \div 100
    IN  [neg |-> c < 0, mag |-> IF r < 0 THEN -r ELSE r]

\* number.toLocaleString("en-US") for a whole number (-0 is written "-0")
ToLocaleStringEnUS(number) ==
    (IF number.neg THEN <<"-">> ELSE <<>>) \o GroupThousands(number.mag)

\* string.replace(/,/g, ".")
ReplaceCommas(str) ==
    [i \in 1..Len(str) |-> IF str[i] = "," THEN "." ELSE str[i]]

\* number.toFixed(digits) for a whole number and digits in {0, 1}
\* (-0 is written without a sign)
NumberToFixed(number, digits) ==
    (IF number.neg /\ number.mag > 0 THEN <<"-">> ELSE <<>>)
    \o Digits(number.mag)
    \o (IF digits = 0 THEN <<>> ELSE <<".", "0">>)

\* Mutant: the "period" branch leaves the commas in place
formatNumber_PeriodKeepsCommas(number) ==
    IF decimalSeparatorType = "comma" THEN ToLocaleStringEnUS(number)
    ELSE IF decimalSeparatorType = "period" THEN ToLocaleStringEnUS(number)
    ELSE NumberToFixed(number, IF incrementType = "integer" THEN 0 ELSE 1)

formatNumber(number) ==
    IF decimalSeparatorType = "comma" THEN ToLocaleStringEnUS(number)
    ELSE IF decimalSeparatorType = "period"
    THEN ReplaceCommas(ToLocaleStringEnUS(number))
    ELSE NumberToFixed(number, IF incrementType = "integer" THEN 0 ELSE 1)

\* The text of the number span: formatNumber(Math.round(count))
Render(c) == formatNumber(MathRound(c))

----------------------------------------------------------------------------
(* Mutants of the timer effect, used to show that the properties below     *)
(* depend on the code they are about                                       *)

\* the interval is created whenever start # end, startOnViewport ignored
TimerCondition_IgnoresViewportFlag(vis) == vis \/ start # end

\* the interval is created only while visible
TimerCondition_VisibleOnly(vis) == vis

\* the cleanup does not clear the interval
ClearInterval_Noop(n) == n

\* the restart effect resets only an animation that has completed
RestartEffect_OnlyWhenCompleted(c, vis) ==
    IF restartOnViewport /\ vis /\ c = end * Scale THEN start * Scale ELSE c

----------------------------------------------------------------------------
(* The timer effect *)

\* const totalSteps = Math.max(1, Math.ceil(duration / 100))
totalSteps == Max(1, Ceil(duration, StepMs))

\* Mutant: loop is honoured, a tick taken at end starts over from start
updateCount_Loops(prevCount) ==
    IF loop /\ prevCount = end * Scale
    THEN {start * Scale}
    ELSE { IF nextCount >= end * Scale THEN end * Scale ELSE nextCount :
            nextCount \in ToFixed2(prevCount * totalSteps
                                     + (end - start) * Scale, totalSteps) }

\* The updater passed to setCount by updateCount: the values the next count
\* can take.  increment = (end - start) / totalSteps, so in hundredths
\* prevCount + increment = (prevCount * totalSteps + (end - start) * Scale)
\* / totalSteps.
updateCount(prevCount) ==
    { IF nextCount >= end * Scale THEN end * Scale ELSE nextCount :
        nextCount \in ToFixed2(prevCount * totalSteps + (end - start) * Scale,
                               totalSteps) }

\* The condition under which the timer effect creates an interval
TimerCondition(vis) == vis \/ (~startOnViewport /\ start # end)

\* The cleanup the timer effect returns when it created an interval:
\* clearInterval(intervalId).  n is the number of registered intervals.
ClearInterval(n) == IF n > 0 THEN n - 1 ELSE 0

\* Mutant: the effect returns no cleanup, a re-run adds a second interval
TimerEffect_NoCleanup(c, vis, n) ==
    IF TimerCondition(vis)
    THEN [count |-> c, intervals |-> n + 1]
    ELSE IF startOnViewport /\ vis
    THEN [count |-> start * Scale, intervals |-> n]
    ELSE [count |-> c, intervals |-> n]

\* Mutant: with startOnViewport, losing visibility resets count to start
TimerEffect_ResetWhenHidden(c, vis, n) ==
    LET cleared == ClearInterval(n)
    IN  IF TimerCondition(vis)
        THEN [count |-> c, intervals |-> cleared + 1]
        ELSE IF startOnViewport
        THEN [count |-> start * Scale, intervals |-> cleared]
        ELSE [count |-> c, intervals |-> cleared]

\* One run of the timer effect for a render with count c and isVisible vis,
\* n intervals being registered before it: the cleanup of the previous run,
\* then the body.
TimerEffect(c, vis, n) ==
    LET cleared == ClearInterval(n)
    IN  IF TimerCondition(vis)
        THEN [count |-> c, intervals |-> cleared + 1]
        ELSE IF startOnViewport /\ vis
        THEN [count |-> start * Scale, intervals |-> cleared]
        ELSE [count |-> c, intervals |-> cleared]

\* The restart effect: setCount(start) when restartOnViewport && isVisible
RestartEffect(c, vis) ==
    IF restartOnViewport /\ vis THEN start * Scale ELSE c

\* The effects of a render in which isVisible changed to vis: the timer
\* effect, then the restart effect; if they updated count, the render that
\* follows runs the timer effect once more (count is one of its deps, and
\* not one of the restart effect's).
CommitVisibility(c, vis, n) ==
    LET first == TimerEffect(c, vis, n)
        c2    == RestartEffect(first.count, vis)
    IN  IF c2 # c THEN TimerEffect(c2, vis, first.intervals)
        ELSE [count |-> c2, intervals |-> first.intervals]

\* The effects of a render in which count changed to c: the timer effect,
\* and once more if it updated count itself.
CommitCount(c, vis, n) ==
    LET first == TimerEffect(c, vis, n)
    IN  IF first.count # c THEN TimerEffect(first.count, vis, first.intervals)
        ELSE first

----------------------------------------------------------------------------
(* Initial state: after the first render and its effects *)

\* The state after mount, given the props.
Mounted ==
    /\ count = start * Scale
    /\ rendered = Render(start * Scale)
    /\ isVisible = FALSE
    /\ containerRef = "div"
    /\ observing = TRUE
    /\ activeIntervals = TimerEffect(start * Scale, FALSE, 0).intervals
    /\ mounted = TRUE
    /\ lastEvent = "mount"
    /\ countBefore = start * Scale
    /\ ticks = 0

\* The state machine is explored with the default formatting props.
Init ==
    /\ start \in 0..MaxNumber
    /\ end \in 0..MaxNumber
    /\ duration \in Durations
    /\ startOnViewport \in BOOLEAN
    /\ restartOnViewport \in BOOLEAN
    /\ loop \in BOOLEAN
    /\ decimalSeparatorType = "comma"
    /\ incrementType = "integer"
    /\ Mounted

\* The formatter is explored with every separator and increment type, on
\* counters that start at a number of FormatNumbers and end there or one
\* above.
FormatInit ==
    /\ start \in FormatNumbers
    /\ end \in {start, start + 1}
    /\ duration \in FormatDurations
    /\ startOnViewport \in BOOLEAN
    /\ restartOnViewport \in BOOLEAN
    /\ loop = FALSE
    /\ decimalSeparatorType \in {"comma", "period", "none"}
    /\ incrementType \in {"integer", "decimal"}
    /\ Mounted

----------------------------------------------------------------------------
(* Actions *)

\* count is still within the explored range
InRange(c) ==
    /\ c >= (Min(start, end) - MaxOvershoot) * Scale
    /\ c <= (Max(start, end) + MaxOvershoot) * Scale

\* The interval callback fires: setCount(updater).  React re-renders only
\* when the state changed; the render re-runs the timer effect.  A state
\* update on an unmounted component is ignored.
Tick ==
    /\ activeIntervals > 0
    /\ InRange(count)
    /\ \E nextCount \in updateCount(count) :
         IF mounted /\ nextCount # count
         THEN LET r == CommitCount(nextCount, isVisible, activeIntervals)
              IN  /\ count' = r.count
                  /\ activeIntervals' = r.intervals
         ELSE UNCHANGED <<count, activeIntervals>>
    /\ rendered' = IF mounted THEN Render(count') ELSE rendered
    /\ lastEvent' = "tick"
    /\ countBefore' = count
    /\ ticks' = IF ticks < MaxTicks THEN ticks + 1 ELSE ticks
    /\ UNCHANGED <<props, loop, isVisible, containerRef, observing, mounted>>

\* The IntersectionObserver callback: setIsVisible(entry.isIntersecting).
\* A state update on an unmounted component is ignored.
Intersect(isIntersecting) ==
    /\ observing
    /\ IF mounted /\ isIntersecting # isVisible
       THEN LET r == CommitVisibility(count, isIntersecting, activeIntervals)
            IN  /\ isVisible' = isIntersecting
                /\ count' = r.count
                /\ activeIntervals' = r.intervals
       ELSE UNCHANGED <<isVisible, count, activeIntervals>>
    /\ rendered' = IF mounted THEN Render(count') ELSE rendered
    /\ lastEvent' = "intersect"
    /\ countBefore' = count
    /\ UNCHANGED <<props, ticks, loop, containerRef, observing, mounted>>

\* The host changes props.loop: loop is a dep of the timer effect only.
SetLoop ==
    /\ mounted
    /\ loop' = ~loop
    /\ LET r == CommitCount(count, isVisible, activeIntervals)
       IN  /\ count' = r.count
           /\ activeIntervals' = r.intervals
    /\ rendered' = Render(count')
    /\ lastEvent' = "setLoop"
    /\ countBefore' = count
    /\ UNCHANGED <<props, ticks, isVisible, containerRef, observing, mounted>>

\* Unmount: the ref is detached and the cleanups of the effects run.  The
\* observer cleanup reads containerRef.current when it runs; whether the
\* ref was detached before it depends on the React version (refCleared).
Unmount ==
    /\ mounted
    /\ mounted' = FALSE
    /\ activeIntervals' = ClearInterval(activeIntervals)
    /\ containerRef' = "null"
    /\ \E refCleared \in BOOLEAN :
         observing' = IF refCleared THEN observing ELSE FALSE
    /\ rendered' = <<>>
    /\ lastEvent' = "unmount"
    /\ countBefore' = count
    /\ UNCHANGED <<props, ticks, loop, count, isVisible>>

Next ==
    \/ Tick
    \/ \E isIntersecting \in BOOLEAN : Intersect(isIntersecting)
    \/ SetLoop
    \/ Unmount

Spec == Init /\ [][Next]_vars

FormatSpec == FormatInit /\ [][Next]_vars

----------------------------------------------------------------------------
(* Properties *)

\* C1: in every reachable state count lies within
\* [min(start, end), max(start, end)], for start < end and for end < start.
C1_CountWithinBounds ==
    /\ count >= Min(start, end) * Scale
    /\ count <= Max(start, end) * Scale

\* C2: with startOnViewport = false and start # end, a timer that keeps
\* ticking brings count to exactly end.  Stated on the state in which
\* ticking has come to rest: when the interval is active and a further tick
\* can only leave count as it is, count equals end.
C2_TickingEndsAtEnd ==
    (/\ mounted
     /\ ~startOnViewport
     /\ start # end
     /\ activeIntervals > 0
     /\ updateCount(count) = {count})
    => count = end * Scale

\* C3: a tick changes count only toward end: it never decreases count when
\* start < end, never increases it when end < start, and leaves a count
\* that equals end equal to end.
C3_TickTowardEnd ==
    [][Tick =>
        /\ (start < end => count' >= count)
        /\ (end < start => count' <= count)
        /\ (count = end * Scale => count' = end * Scale)]_vars

\* C4: the tick that sets count to end leaves no interval active (the
\* timer is cancelled on completion).
C4_CompletionCancelsInterval ==
    [][(Tick /\ count # end * Scale /\ count' = end * Scale)
        => activeIntervals' = 0]_vars

\* C5: with restartOnViewport set, every transition of isVisible from
\* false to true resets count to start, whatever count and startOnViewport
\* are.
C5_RestartResetsCount ==
    [][(restartOnViewport /\ ~isVisible /\ isVisible')
        => count' = start * Scale]_vars

\* C5 witness: a visibility notification has just reset a count that had
\* moved away from start.
C5_Witness ==
    /\ restartOnViewport
    /\ lastEvent = "intersect"
    /\ isVisible
    /\ countBefore # start * Scale
    /\ count = start * Scale

\* C6: with startOnViewport set and restartOnViewport unset, regaining
\* visibility resets count to start.  With startOnViewport set, count
\* differs from start only after the component has been visible, so a
\* transition false -> true from such a state is a re-entry.
C6_ReentryResetsCount ==
    [][(/\ startOnViewport
        /\ ~restartOnViewport
        /\ count # start * Scale
        /\ ~isVisible
        /\ isVisible')
        => count' = start * Scale]_vars

\* C7: with startOnViewport set, an interval is active only while
\* isVisible is true (so no tick can change count while it is false).
C7_IntervalOnlyWhileVisible ==
    (startOnViewport /\ activeIntervals > 0) => isVisible

\* C7 witness: the animation has run while visible, visibility was lost
\* and the interval is gone.
C7_Witness ==
    /\ startOnViewport
    /\ mounted
    /\ lastEvent = "intersect"
    /\ ~isVisible
    /\ count # start * Scale
    /\ activeIntervals = 0

\* C8: when start = end no interval is ever created.
C8_NoTimerWhenStartIsEnd ==
    start = end => activeIntervals = 0

\* C9: with startOnViewport = false and start # end, an interval is active
\* from mount on, whatever isVisible is.
C9_ImmediateStart ==
    (mounted /\ ~startOnViewport /\ start # end) => activeIntervals = 1

\* C9 witness: count has advanced by a tick while isVisible is false.
C9_Witness ==
    /\ mounted
    /\ ~startOnViewport
    /\ start # end
    /\ ~isVisible
    /\ lastEvent = "tick"
    /\ count # countBefore
    /\ activeIntervals = 1

\* C10: once unmounted, no interval is registered and count never changes
\* again.
C10_NoUpdateAfterUnmount ==
    [][~mounted' => (activeIntervals' = 0 /\ (~mounted => count' = count))]_vars

\* C10 witness: the component was unmounted while its interval was active.
C10_Witness ==
    /\ ~mounted
    /\ lastEvent = "unmount"
    /\ ~startOnViewport
    /\ start # end
    /\ count # start * Scale
    /\ activeIntervals = 0

\* C11: with startOnViewport = false, start # end and no restart trigger,
\* each of the first totalSteps ticks advances count by exactly
\* (end - start) / totalSteps, so count equals end after exactly totalSteps
\* ticks from mount and not earlier.
C11_ExactStepsToEnd ==
    (/\ mounted
     /\ ~startOnViewport
     /\ ~restartOnViewport
     /\ start # end
     /\ ticks < MaxTicks
     /\ ticks <= totalSteps)
    => /\ count * totalSteps
            = start * Scale * totalSteps + ticks * (end - start) * Scale
       /\ (ticks = totalSteps => count = end * Scale)
       /\ (ticks < totalSteps => count # end * Scale)

\* C14: after unmount the observer no longer observes the root element,
\* also when containerRef.current was cleared before the cleanup ran.
C14_ObservationReleased ==
    ~mounted => ~observing

\* C15: at most one interval is registered in every reachable state: each
\* re-run of the timer effect clears the previous interval first.
C15_AtMostOneInterval ==
    activeIntervals <= 1

\* C15 witness: a tick changed count, the timer effect re-ran and one
\* interval is registered.
C15_Witness ==
    /\ mounted
    /\ lastEvent = "tick"
    /\ count # countBefore
    /\ ticks > 1
    /\ activeIntervals = 1

\* C16: with startOnViewport set, a step that ends with isVisible false
\* (the transition true -> false, or any step while it stays false) leaves
\* count unchanged.
C16_HiddenKeepsCount ==
    [][(startOnViewport /\ ~isVisible') => count' = count]_vars

\* C16 witness: visibility was lost in mid-animation and count kept its
\* value.
C16_Witness ==
    /\ startOnViewport
    /\ mounted
    /\ lastEvent = "intersect"
    /\ ~isVisible
    /\ count = countBefore
    /\ count # start * Scale
    /\ count # end * Scale

----------------------------------------------------------------------------
(* The reference formatter of C12 and C13, written from the digits' place  *)
(* values                                                                  *)

\* the number of decimal digits of n
RefNumDigits(n) ==
    CHOOSE k \in 1..12 : n < 10^k /\ (k = 1 \/ n >= 10^(k - 1))

\* the decimal digits of n
RefDigits(n) ==
    LET len == RefNumDigits(n)
    IN  [i \in 1..len |-> Digit((n \div 10^(len - i)) % 10)]

\* the digits d from position i on, sep written before every digit that is
\* followed by a multiple of three digits less one (and is not the first)
RECURSIVE RefInsert(_, _, _)
RefInsert(d, i, sep) ==
    IF i > Len(d) THEN <<>>
    ELSE (IF i > 1 /\ (Len(d) - i + 1) % 3 = 0 THEN <<sep>> ELSE <<>>)
         \o <<d[i]>> \o RefInsert(d, i + 1, sep)

\* the digits of n grouped in threes with sep
RefGrouped(n, sep) == RefInsert(RefDigits(n), 1, sep)

\* C12: on a non-negative whole number n, formatNumber yields the digits of
\* n grouped in threes with "," for "comma", the same with "." for
\* "period", and the plain digits for "none" with incrementType "integer".
C12_FormatMatchesReference ==
    mounted =>
        LET n == MathRound(count).mag
        IN  /\ decimalSeparatorType = "comma" => rendered = RefGrouped(n, ",")
            /\ decimalSeparatorType = "period" => rendered = RefGrouped(n, ".")
            /\ (decimalSeparatorType = "none" /\ incrementType = "integer")
                   => rendered = RefDigits(n)

\* C12 witness: a tick has taken the count from below 1000 to 1000, which
\* is rendered "1.000" with the "period" separator.
C12_Witness ==
    /\ mounted
    /\ decimalSeparatorType = "period"
    /\ lastEvent = "tick"
    /\ countBefore < 1000 * Scale
    /\ count = 1000 * Scale
    /\ rendered = <<"1", ".", "0", "0", "0">>

\* C13: with decimalSeparatorType "none" and incrementType "decimal" the
\* rendered string is count itself to one decimal digit (2.5 is rendered
\* "2.5"; where count lies half way between two tenths either is accepted).
C13_RendersCountItself ==
    (/\ mounted
     /\ decimalSeparatorType = "none"
     /\ incrementType = "decimal"
     /\ count >= 0)
    => \E tenths \in ToFixed2(count, 10) :
          rendered = RefDigits(tenths \div 10) \o <<".", Digit(tenths % 10)>>

====
